---------------------------- MODULE Spec2Model ----------------------------
(***************************************************************************)
(* A model of precise_float's lib.rs: the bounds -> representation         *)
(* selector (UniFloatBounds, UniFloatChoice, MpfrBounds), the size         *)
(* calculation, and the copy / fixup protocol of UniFloat<C> (NAN,         *)
(* copied(), <<=, assert_copy_fixed, assert_copy_not_fixed).               *)
(*                                                                         *)
(* Two specifications share the variables:                                 *)
(*   Spec        the copy / fixup protocol over a few UniFloat<C> places   *)
(*   SpecSelect  the pure selector functions applied to a drawn request    *)
(***************************************************************************)
EXTENDS Integers, Sequences, FiniteSets, TLC

VARIABLES
    debug_assertions,   \* cfg(debug_assertions): fixed per build
    C,                  \* the const generic UniFloatChoice of UniFloat<C>
    mem,                \* address -> the UniFloat<C> bytes stored there
    panicked,           \* TRUE once an assert! / panic! has fired
    last,               \* the operation that made this state, with its inputs
    req,                \* the UniFloatBounds request given to accommodate
    chosen,             \* the UniFloatChoice accommodate returned
    derived             \* the result of the last query on chosen

vars == <<debug_assertions, C, mem, panicked, last, req, chosen, derived>>

---------------------------------------------------------------------------
(* Bounds of the model *)

\* Requested precisions are 1..MaxPrecision (three limbs are reached at 129).
MaxPrecision == 130

\* The number of UniFloat<C> places (variables, slice elements), at
\* consecutive addresses.
NumAddr == 2

\* An uninitialised limb reads as any of 0..MaxLimb.
MaxLimb == 1

---------------------------------------------------------------------------
(* Constants of the program and of its external types *)

\* gmp::NUMB_BITS, the bits of a limb used for the significand (64-bit limbs,
\* no nails).
NUMB_BITS == 64

\* gmp::limb_t::BITS
ONE_LIMB_PRECISION == 64

\* isize::MAX and isize::MIN.  TLC's integers are 32 bits wide, so the two
\* extremes of isize are represented by the extremes of TLC's range; exponents
\* are only ever compared with each other, never computed with.
ISIZE_MAX == 2147483647

ISIZE_MIN == -ISIZE_MAX - 1

\* f32::MANTISSA_DIGITS, f32::MIN_EXP, f32::MAX_EXP
F32_MANTISSA_DIGITS == 24

F32_MIN_EXP == -125

F32_MAX_EXP == 128

\* f32::DIGITS, f32::MIN_10_EXP, f32::MAX_10_EXP
F32_DIGITS == 6

F32_MIN_10_EXP == -37

F32_MAX_10_EXP == 38

\* f64::MANTISSA_DIGITS, f64::MIN_EXP, f64::MAX_EXP
F64_MANTISSA_DIGITS == 53

F64_MIN_EXP == -1021

F64_MAX_EXP == 1024

\* f64::DIGITS, f64::MIN_10_EXP, f64::MAX_10_EXP
F64_DIGITS == 15

F64_MIN_10_EXP == -307

F64_MAX_10_EXP == 308

\* (isize::MIN as f32 * LOG10_2).ceil() and (isize::MAX as f32 * LOG10_2).floor()
\* for the isize range above, in f32 arithmetic.
MPFR_MIN_EXPONENT_DECIMAL == -646457024

MPFR_MAX_EXPONENT_DECIMAL == 646457024

\* size and alignment in bytes of the element types of UniFloat's fields
SIZE_F32 == 4

SIZE_F64 == 8

SIZE_TWOFLOAT == 16

SIZE_LIMB == 8

SIZE_MPFR_T == 32

SIZE_PTR == 8

ALIGN_F32 == 4

ALIGN_WORD == 8

---------------------------------------------------------------------------
(* MpfrBounds, UniFloatChoice *)

BINARY == "BINARY"

DECIMAL == "DECIMAL"

UniFloatBoundsBase == {DECIMAL, BINARY}

MpfrBounds(precision_bits, limb_parts) ==
    [precision_bits |-> precision_bits, limb_parts |-> limb_parts]

\* A mutation of for_precision_binary: the remainder taken instead of the
\* quotient.
for_precision_binary_rem(precision_bits) ==
    MpfrBounds(precision_bits, ((precision_bits - 1) % NUMB_BITS) + 1)

\* MpfrBounds::for_precision_binary.  precision_bits is a usize >= 1 here
\* (precision_bits - 1 does not wrap).
for_precision_binary(precision_bits) ==
    MpfrBounds(precision_bits, ((precision_bits - 1) \div NUMB_BITS) + 1)

F32 == [tag |-> "F32"]

F64 == [tag |-> "F64"]

TwoFloat == [tag |-> "TwoFloat"]

Mpfr(bounds) == [tag |-> "Mpfr", bounds |-> bounds]

IsMpfr(c) == c.tag = "Mpfr"

\* type UniMpfrLimb1Prec1
UniMpfrLimb1Prec1 == Mpfr(MpfrBounds(1, 1))

\* type UniMpfrLimb2PrecAll
UniMpfrLimb2PrecAll == Mpfr(MpfrBounds(2 * ONE_LIMB_PRECISION, 2))

\* The outcome of a call that panicked instead of returning.
PANIC == [tag |-> "panic"]

---------------------------------------------------------------------------
(* UniFloatBounds<BASE> *)

UniFloatBounds(base, precision, min_exponent, max_exponent) ==
    [base |-> base, precision |-> precision,
     min_exponent |-> min_exponent, max_exponent |-> max_exponent]

\* A mutation of covers: only the upper exponent bound is compared.
covers_one_sided(self, other) ==
    /\ self.precision >= other.precision
    /\ self.max_exponent >= other.max_exponent

\* UniFloatBounds::covers
covers(self, other) ==
    /\ self.precision >= other.precision
    /\ self.min_exponent <= other.min_exponent
    /\ self.max_exponent >= other.max_exponent

\* A mutation of F32_BOUNDS_BINARY: the exponent limits in the IEEE convention
\* (significand in [1, 2)) instead of that of f32::MIN_EXP and f32::MAX_EXP.
F32_BOUNDS_BINARY_ieee ==
    UniFloatBounds(BINARY, F32_MANTISSA_DIGITS, F32_MIN_EXP - 1, F32_MAX_EXP - 1)

F32_BOUNDS_BINARY ==
    UniFloatBounds(BINARY, F32_MANTISSA_DIGITS, F32_MIN_EXP, F32_MAX_EXP)

F32_BOUNDS_DECIMAL ==
    UniFloatBounds(DECIMAL, F32_DIGITS, F32_MIN_10_EXP, F32_MAX_10_EXP)

F64_BOUNDS_BINARY ==
    UniFloatBounds(BINARY, F64_MANTISSA_DIGITS, F64_MIN_EXP, F64_MAX_EXP)

F64_BOUNDS_DECIMAL ==
    UniFloatBounds(DECIMAL, F64_DIGITS, F64_MIN_10_EXP, F64_MAX_10_EXP)

TWOFLOAT_BOUNDS_BINARY ==
    UniFloatBounds(BINARY, 2 * F64_MANTISSA_DIGITS, F64_MIN_EXP, F64_MAX_EXP)

TWOFLOAT_BOUNDS_DECIMAL ==
    UniFloatBounds(DECIMAL, 2 * F64_DIGITS, F64_MIN_10_EXP, F64_MAX_10_EXP)

\* A mutation of to_choice (BINARY): Double is tried before Single.
to_choice_BINARY_f64_first(self) ==
    IF covers(F64_BOUNDS_BINARY, self) THEN F64
    ELSE IF covers(F32_BOUNDS_BINARY, self) THEN F32
    ELSE IF covers(TWOFLOAT_BOUNDS_BINARY, self) THEN TwoFloat
    ELSE Mpfr(for_precision_binary(self.precision))

\* impl UniFloatBoundsToChoice for UniFloatBounds<BINARY>
to_choice_BINARY(self) ==
    IF covers(F32_BOUNDS_BINARY, self) THEN F32
    ELSE IF covers(F64_BOUNDS_BINARY, self) THEN F64
    ELSE IF covers(TWOFLOAT_BOUNDS_BINARY, self) THEN TwoFloat
    ELSE Mpfr(for_precision_binary(self.precision))

\* A mutation of to_choice (DECIMAL): the decimal request is answered against
\* the decimal records instead of panicking.
to_choice_DECIMAL_approximate(self) ==
    IF covers(F32_BOUNDS_DECIMAL, self) THEN F32
    ELSE IF covers(F64_BOUNDS_DECIMAL, self) THEN F64
    ELSE TwoFloat

\* impl UniFloatBoundsToChoice for UniFloatBounds<DECIMAL>: panic!()
to_choice_DECIMAL(self) == PANIC

\* UniFloatBounds::accommodate: the impl of to_choice is that of BASE.
accommodate(self) ==
    IF self.base = BINARY THEN to_choice_BINARY(self) ELSE to_choice_DECIMAL(self)

---------------------------------------------------------------------------
(* UniFloatChoice -> UniFloatBounds *)

\* (x as f32 * LOG10_2).floor() for a precision x; LOG10_2 is 0.30103 in f32
\* and the product is exact enough for every x the model reaches.
floor_log10_2(x) == (x * 30103) \div 100000

\* impl UniFloatChoiceToBounds for UniFloatBounds<BINARY>
to_bounds_BINARY(choice) ==
    CASE choice = F32 -> F32_BOUNDS_BINARY
      [] choice = F64 -> F64_BOUNDS_BINARY
      [] choice = TwoFloat -> TWOFLOAT_BOUNDS_BINARY
      [] IsMpfr(choice) ->
           UniFloatBounds(BINARY, choice.bounds.precision_bits, ISIZE_MIN, ISIZE_MAX)

\* impl UniFloatChoiceToBounds for UniFloatBounds<DECIMAL>
to_bounds_DECIMAL(choice) ==
    CASE choice = F32 -> F32_BOUNDS_DECIMAL
      [] choice = F64 -> F64_BOUNDS_DECIMAL
      [] choice = TwoFloat -> TWOFLOAT_BOUNDS_DECIMAL
      [] IsMpfr(choice) ->
           UniFloatBounds(DECIMAL, floor_log10_2(choice.bounds.precision_bits),
                          MPFR_MIN_EXPONENT_DECIMAL, MPFR_MAX_EXPONENT_DECIMAL)

\* UniFloatChoice::bounds::<BASE>.  The declared return type is
\* UniFloatBounds<BINARY> whatever BASE is, and the impl of to_bounds is the
\* one of the return type: BASE only has to have an impl.
bounds(self, BASE) == to_bounds_BINARY(self)

\* A mutation of most_precise_for_same_space: the precision is kept.
most_precise_for_same_space_same(self) == self

\* UniFloatChoice::most_precise_for_same_space
most_precise_for_same_space(self) ==
    IF IsMpfr(self)
    THEN Mpfr(for_precision_binary(self.bounds.limb_parts * NUMB_BITS))
    ELSE self

---------------------------------------------------------------------------
(* The layout of UniFloat<C> and its size *)

f32_parts_length(c) == IF c = F32 THEN 1 ELSE 0

f64_parts_length(c) == IF c = F64 THEN 1 ELSE 0

twofloat_parts_length(c) == IF c = TwoFloat THEN 1 ELSE 0

mpfr_limb_parts_length(c) == IF IsMpfr(c) THEN c.bounds.limb_parts ELSE 0

mpfr_fixed_parts_length(c) == IF IsMpfr(c) THEN 1 ELSE 0

\* The fields of #[repr(C)] struct UniFloat<C>, in order, each <<size, align>>.
\* unifloat_self exists under cfg(debug_assertions) only.
UniFloatFields(c, debug) ==
    << <<SIZE_F32 * f32_parts_length(c), ALIGN_F32>>,
       <<SIZE_F64 * f64_parts_length(c), ALIGN_WORD>>,
       <<SIZE_TWOFLOAT * twofloat_parts_length(c), ALIGN_WORD>>,
       <<SIZE_LIMB * mpfr_limb_parts_length(c), ALIGN_WORD>>,
       <<SIZE_MPFR_T * mpfr_fixed_parts_length(c), ALIGN_WORD>> >>
    \o (IF debug THEN << <<SIZE_PTR, ALIGN_WORD>> >> ELSE << >>)

RoundUp(n, align) == ((n + align - 1) \div align) * align

RECURSIVE EndOffset(_, _)
\* The offset after the first n fields, each placed at its alignment.
EndOffset(fields, n) ==
    IF n = 0 THEN 0
    ELSE RoundUp(EndOffset(fields, n - 1), fields[n][2]) + fields[n][1]

RECURSIVE MaxAlign(_, _)
MaxAlign(fields, n) ==
    IF n = 0 THEN 1
    ELSE LET m == MaxAlign(fields, n - 1)
         IN  IF fields[n][2] > m THEN fields[n][2] ELSE m

\* mem::size_of::<UniFloat<c>>()
size_of_UniFloat(c, debug) ==
    LET fields == UniFloatFields(c, debug)
    IN  RoundUp(EndOffset(fields, Len(fields)), MaxAlign(fields, Len(fields)))

\* UniFloatChoice::unifloat_size
unifloat_size(self, debug) ==
    IF IsMpfr(self)
    THEN size_of_UniFloat(UniMpfrLimb1Prec1, debug)
           + (self.bounds.limb_parts - 1)
             * (size_of_UniFloat(UniMpfrLimb2PrecAll, debug)
                - size_of_UniFloat(UniMpfrLimb1Prec1, debug))
    ELSE size_of_UniFloat(self, debug)

---------------------------------------------------------------------------
(* UniFloat<C>: the stored record and the copy / fixup protocol *)

\* ptr::null()
NULL == 0

\* The address of the static DUMMY_MPFR_LIMB: not the address of any UniFloat.
DUMMY_MPFR_LIMB_PTR == 1

\* The addresses of the UniFloat<C> places of the program.
Addrs == (DUMMY_MPFR_LIMB_PTR + 1)..(DUMMY_MPFR_LIMB_PTR + NumAddr)

\* What an uninitialised limb (MaybeUninit::uninit().assume_init()) may hold.
LimbValues == 0..MaxLimb

\* The contents an uninitialised limb array of UniFloat<c> may have.
LimbArrays(c) == [1..mpfr_limb_parts_length(c) -> LimbValues]

\* mpfr::exp_t is a C long: 1 - exp_t::max_value(), in the isize range above.
INITIAL_MPFR_EXP == 1 - ISIZE_MAX

\* A mutation of NAN: the descriptor starts with a null limb pointer.
NAN_null_d(c, limbs) ==
    [f32s |-> [i \in 1..f32_parts_length(c) |-> "NaN"],
     f64s |-> [i \in 1..f64_parts_length(c) |-> "NaN"],
     twofloats |-> [i \in 1..twofloat_parts_length(c) |-> "NaN"],
     mpfr_limbs |-> limbs,
     mpfr_fixeds |-> [i \in 1..mpfr_fixed_parts_length(c) |->
                        [prec |-> 1, sign |-> 1, exp |-> INITIAL_MPFR_EXP,
                         d |-> NULL]],
     unifloat_self |-> NULL]

\* UniFloat::<c>::NAN.  mpfr_limbs is uninitialised: limbs is what it happens
\* to hold.  unifloat_self exists in the debug build only; in the other build
\* the field is carried as NULL and nothing reads or writes it.
NAN(c, limbs) ==
    [f32s |-> [i \in 1..f32_parts_length(c) |-> "NaN"],
     f64s |-> [i \in 1..f64_parts_length(c) |-> "NaN"],
     twofloats |-> [i \in 1..twofloat_parts_length(c) |-> "NaN"],
     mpfr_limbs |-> limbs,
     mpfr_fixeds |-> [i \in 1..mpfr_fixed_parts_length(c) |->
                        [prec |-> 1, sign |-> 1, exp |-> INITIAL_MPFR_EXP,
                         d |-> DUMMY_MPFR_LIMB_PTR]],
     unifloat_self |-> NULL]

\* UniFloat::mpfr_limps_ptr: the address of self.mpfr_limbs.  In the repr(C)
\* layout of an Mpfr-backed UniFloat the fields before mpfr_limbs are empty
\* arrays, so the limb array starts where the instance starts.
mpfr_limps_ptr(self) == self

\* A mutation of assert_copy_fixed: the structural check of the descriptor
\* pointer is left out.
assert_copy_fixed_witness_only(m, self) ==
    debug_assertions => m[self].unifloat_self = self

\* UniFloat::assert_copy_fixed, for the instance at address self of memory m:
\* TRUE when both assert!s pass.
assert_copy_fixed(m, self) ==
    /\ debug_assertions => m[self].unifloat_self = self
    /\ IF IsMpfr(C)
       THEN m[self].mpfr_fixeds[1].d = mpfr_limps_ptr(self)
       ELSE TRUE

\* UniFloat::assert_copy_not_fixed: TRUE when both assert!s pass.
assert_copy_not_fixed(m, self) ==
    /\ debug_assertions => m[self].unifloat_self # self
    /\ IF IsMpfr(C)
       THEN m[self].mpfr_fixeds[1].d # mpfr_limps_ptr(self)
       ELSE TRUE

\* A mutation of Fixup: the descriptor pointer is not rewritten.
Fixup_no_pointer(m, self) ==
    [m[self] EXCEPT !.unifloat_self = IF debug_assertions THEN self ELSE @]

\* The instance at self after the two assignments of copied().
Fixup(m, self) ==
    [m[self] EXCEPT
       !.mpfr_fixeds = IF IsMpfr(C)
                       THEN [@ EXCEPT ![1].d = mpfr_limps_ptr(self)]
                       ELSE @,
       !.unifloat_self = IF debug_assertions THEN self ELSE @]

\* A mutation of copied: no check that the instance is not fixed yet.
copied_unchecked(m, self) ==
    [mem |-> [m EXCEPT ![self] = Fixup(m, self)], ok |-> TRUE]

\* UniFloat::copied on the instance at address self of memory m: the memory
\* afterwards, and ok = FALSE when assert_copy_not_fixed panicked (before
\* anything was written).
copied(m, self) ==
    IF ~assert_copy_not_fixed(m, self)
    THEN [mem |-> m, ok |-> FALSE]
    ELSE [mem |-> [m EXCEPT ![self] = Fixup(m, self)], ok |-> TRUE]

\* impl ShlAssign for UniFloat<C>: *self = rhs; self.copied();
shl_assign_value(m, self, rhs) ==
    copied([m EXCEPT ![self] = rhs], self)

\* A mutation of shl_assign by reference: the source is not checked.
shl_assign_ref_unchecked(m, self, rhs) ==
    copied([m EXCEPT ![self] = m[rhs]], self)

\* impl ShlAssign<&Self> for UniFloat<C>:
\* rhs.assert_copy_fixed(); *self = *rhs; self.copied();
shl_assign_ref(m, self, rhs) ==
    IF ~assert_copy_fixed(m, rhs)
    THEN [mem |-> m, ok |-> FALSE]
    ELSE copied([m EXCEPT ![self] = m[rhs]], self)

RECURSIVE copied_slice(_, _, _)
\* pub fn copied(unifloats: &mut [UniFloat<C>]), the slice being the places
\* lo..hi: uf.copied() on each element in order, up to the first panic.
copied_slice(m, lo, hi) ==
    IF lo > hi THEN [mem |-> m, ok |-> TRUE]
    ELSE LET r == copied(m, lo)
         IN  IF r.ok THEN copied_slice(r.mem, lo + 1, hi) ELSE r

---------------------------------------------------------------------------
(* Spec: the copy / fixup protocol *)

\* The representations the protocol is run for.  The limb count plays no part
\* in the protocol, so one Mpfr-backed type stands for all of them.
TypeChoices == {F32, F64, TwoFloat, UniMpfrLimb1Prec1}

NONE == [tag |-> "none"]

NoRequest == UniFloatBounds(BINARY, 1, 0, 0)

\* The record of an operation: its name, the place(s) dst..hi it acted on, the
\* place src it read, and the instances that were at dst..hi and at src before.
Op(op, dst, hi, src, m, rhs) ==
    [op |-> op, dst |-> dst, hi |-> hi, src |-> src,
     pre |-> [a \in dst..hi |-> m[a]], rhs |-> rhs]

\* Every place starts as a default(): `let mut x = UniFloat::<C>::default();`
Init ==
    /\ debug_assertions \in BOOLEAN
    /\ C \in TypeChoices
    /\ mem \in [Addrs -> {NAN(C, l) : l \in LimbArrays(C)}]
    /\ panicked = FALSE
    /\ last = [op |-> "init"]
    /\ req = NoRequest
    /\ chosen = NONE
    /\ derived = NONE

Unselected == UNCHANGED <<debug_assertions, C, req, chosen, derived>>

\* x = UniFloat::default() (or UniFloat::NAN) stored at place a.
Construct(a, limbs) ==
    /\ ~panicked
    /\ mem' = [mem EXCEPT ![a] = NAN(C, limbs)]
    /\ last' = Op("new", a, a, a, mem, NAN(C, limbs))
    /\ UNCHANGED panicked
    /\ Unselected

\* *d = *s, `let d = s`, a move, a return: the bytes at s duplicated at d.
RawCopy(s, d) ==
    /\ ~panicked
    /\ s # d
    /\ mem' = [mem EXCEPT ![d] = mem[s]]
    /\ last' = Op("copy", d, d, s, mem, mem[s])
    /\ UNCHANGED panicked
    /\ Unselected

\* x.copied()
Copied(a) ==
    /\ ~panicked
    /\ LET r == copied(mem, a)
       IN  /\ mem' = r.mem
           /\ panicked' = ~r.ok
    /\ last' = Op("copied", a, a, a, mem, mem[a])
    /\ Unselected

\* copied(&mut places[lo..=hi])
CopiedSlice(lo, hi) ==
    /\ ~panicked
    /\ lo <= hi
    /\ LET r == copied_slice(mem, lo, hi)
       IN  /\ mem' = r.mem
           /\ panicked' = ~r.ok
    /\ last' = Op("copied_slice", lo, hi, lo, mem, mem[lo])
    /\ Unselected

\* A read of the payload of the instance at a: the check made before it.
Read(a) ==
    /\ ~panicked
    /\ panicked' = ~assert_copy_fixed(mem, a)
    /\ last' = Op("read", a, a, a, mem, mem[a])
    /\ UNCHANGED mem
    /\ Unselected

\* dst <<= rhs, rhs passed by value: the bytes of the instance at src (dst
\* itself included, UniFloat being Copy) moved into the parameter.
ShlAssignValue(dst, src) ==
    /\ ~panicked
    /\ LET r == shl_assign_value(mem, dst, mem[src])
       IN  /\ mem' = r.mem
           /\ panicked' = ~r.ok
    /\ last' = Op("shl_assign_value", dst, dst, src, mem, mem[src])
    /\ Unselected

\* dst <<= &src.  &mut self and &Self cannot alias.
ShlAssignRef(dst, src) ==
    /\ ~panicked
    /\ src # dst
    /\ LET r == shl_assign_ref(mem, dst, src)
       IN  /\ mem' = r.mem
           /\ panicked' = ~r.ok
    /\ last' = Op("shl_assign_ref", dst, dst, src, mem, mem[src])
    /\ Unselected

Next ==
    \/ \E a \in Addrs, limbs \in LimbArrays(C) : Construct(a, limbs)
    \/ \E s \in Addrs, d \in Addrs : RawCopy(s, d)
    \/ \E a \in Addrs : Copied(a)
    \/ \E lo \in Addrs, hi \in Addrs : CopiedSlice(lo, hi)
    \/ \E a \in Addrs : Read(a)
    \/ \E dst \in Addrs, src \in Addrs : ShlAssignValue(dst, src)
    \/ \E dst \in Addrs, src \in Addrs : ShlAssignRef(dst, src)

Spec == Init /\ [][Next]_vars

---------------------------------------------------------------------------
(* SpecSelect: the selector applied to a request *)

\* Exponent limits requested: around those of f32 and f64, and the extremes.
MinExponents ==
    {F32_MIN_EXP - 1, F32_MIN_EXP, F32_MIN_EXP + 1,
     F64_MIN_EXP - 1, F64_MIN_EXP, F64_MIN_EXP + 1, ISIZE_MIN}

MaxExponents ==
    {F32_MAX_EXP - 1, F32_MAX_EXP, F32_MAX_EXP + 1,
     F64_MAX_EXP - 1, F64_MAX_EXP, F64_MAX_EXP + 1, ISIZE_MAX}

\* UniFloatBounds::new(precision, min_exponent, max_exponent), precision > 0
Requests ==
    {UniFloatBounds(b, p, lo, hi) :
        b \in UniFloatBoundsBase, p \in 1..MaxPrecision,
        lo \in MinExponents, hi \in MaxExponents}

InitSelect ==
    /\ debug_assertions \in BOOLEAN
    /\ req \in Requests
    /\ chosen = NONE
    /\ derived = NONE
    /\ panicked = FALSE
    /\ C = NONE
    /\ mem = << >>
    /\ last = [op |-> "init"]

Unstored == UNCHANGED <<debug_assertions, C, mem, last, req>>

IsChoice(c) == c # NONE /\ c # PANIC

\* req.accommodate()
Accommodate ==
    /\ ~panicked
    /\ chosen = NONE
    /\ chosen' = accommodate(req)
    /\ panicked' = (chosen' = PANIC)
    /\ derived' = [op |-> "accommodate", of |-> req, out |-> chosen']
    /\ Unstored

\* chosen.bounds::<BASE>()
Bounds(BASE) ==
    /\ ~panicked
    /\ IsChoice(chosen)
    /\ derived' = [op |-> "bounds", of |-> chosen, base |-> BASE,
                   out |-> bounds(chosen, BASE)]
    /\ UNCHANGED <<chosen, panicked>>
    /\ Unstored

\* chosen = chosen.most_precise_for_same_space()
MostPrecise ==
    /\ ~panicked
    /\ IsChoice(chosen)
    /\ chosen' = most_precise_for_same_space(chosen)
    /\ derived' = [op |-> "most_precise", of |-> chosen, out |-> chosen']
    /\ UNCHANGED panicked
    /\ Unstored

\* chosen.unifloat_size()
UnifloatSize ==
    /\ ~panicked
    /\ IsChoice(chosen)
    /\ derived' = [op |-> "unifloat_size", of |-> chosen,
                   out |-> unifloat_size(chosen, debug_assertions)]
    /\ UNCHANGED <<chosen, panicked>>
    /\ Unstored

NextSelect ==
    \/ Accommodate
    \/ \E BASE \in UniFloatBoundsBase : Bounds(BASE)
    \/ MostPrecise
    \/ UnifloatSize

SpecSelect == InitSelect /\ [][NextSelect]_vars

---------------------------------------------------------------------------
(* The states of the protocol, as the specification defines them *)

\* Fixed: the self-reference invariant holds of the instance inst placed at
\* address a (the witness of the debug build, the descriptor pointer of an
\* Mpfr-backed instance).
Fixed(inst, a) ==
    /\ debug_assertions => inst.unifloat_self = a
    /\ IsMpfr(C) => inst.mpfr_fixeds[1].d = mpfr_limps_ptr(a)

\* Every check the build and the representation have says "not fixed".
Unfixed(inst, a) ==
    /\ debug_assertions => inst.unifloat_self # a
    /\ IsMpfr(C) => inst.mpfr_fixeds[1].d # mpfr_limps_ptr(a)

\* The build and the representation have a check that tells the two apart.
Checked == debug_assertions \/ IsMpfr(C)

\* inst, at address a, is the byte copy of an instance Fixed somewhere else.
StaleCopy(inst, a) == \E s \in Addrs \ {a} : Fixed(inst, s)

\* inst is as constructed.
Fresh(inst) == inst = NAN(C, inst.mpfr_limbs)

\* The value an instance holds: every field but the self-references.
Payload(inst) ==
    [f32s |-> inst.f32s, f64s |-> inst.f64s, twofloats |-> inst.twofloats,
     mpfr_limbs |-> inst.mpfr_limbs,
     mpfr_fixeds |-> [i \in DOMAIN inst.mpfr_fixeds |->
                        [prec |-> inst.mpfr_fixeds[i].prec,
                         sign |-> inst.mpfr_fixeds[i].sign,
                         exp |-> inst.mpfr_fixeds[i].exp]]]

---------------------------------------------------------------------------
(* Claims about the copy / fixup protocol (Spec) *)

\* C1 (as claimed): after dst <<= rhs, by value from any instance or by
\* reference from a Fixed one, nothing has panicked, dst is Fixed, holds the
\* payload of the source, and the read check on dst passes.
C1_AdoptThenReadNeverAborts ==
    (\/ last.op = "shl_assign_value"
     \/ last.op = "shl_assign_ref" /\ Fixed(last.rhs, last.src))
    => /\ ~panicked
       /\ Fixed(mem[last.dst], last.dst)
       /\ assert_copy_fixed(mem, last.dst)
       /\ Payload(mem[last.dst]) = Payload(last.rhs)

\* C2: the raw copy, at another address, of a Fixed Mpfr-backed instance is
\* Pending: it has the bytes of the original and is not Fixed, a read check on
\* it panics, and copied() on it does not panic, leaves it Fixed with its
\* descriptor pointer at its own limb array and the payload of the original.
C2_RawCopyIsPendingUntilFixup ==
    IsMpfr(C) =>
      /\ (last.op = "copy" /\ Fixed(last.rhs, last.src))
            => /\ mem[last.dst] = last.rhs
               /\ StaleCopy(mem[last.dst], last.dst)
               /\ ~Fixed(mem[last.dst], last.dst)
      /\ (last.op = "read" /\ StaleCopy(last.rhs, last.dst)) => panicked
      /\ (last.op = "copied" /\ StaleCopy(last.rhs, last.dst))
            => /\ ~panicked
               /\ Fixed(mem[last.dst], last.dst)
               /\ assert_copy_fixed(mem, last.dst)
               /\ mem[last.dst].mpfr_fixeds[1].d = mpfr_limps_ptr(last.dst)
               /\ Payload(mem[last.dst]) = Payload(last.rhs)

\* C2's case: copied() has run on the raw copy of a Fixed Mpfr-backed instance.
C2_Witness ==
    /\ IsMpfr(C)
    /\ last.op = "copied"
    /\ StaleCopy(last.rhs, last.dst)
    /\ ~panicked

C6_FixupAlwaysSucceeds ==
    last.op \in {"copied", "copied_slice"}
    => /\ ~panicked
       /\ \A a \in last.dst..last.hi :
            /\ Fixed(mem[a], a)
            /\ Payload(mem[a]) = Payload(last.pre[a])

\* The elements of the slice of the last operation that were already fixed
\* (on which assert_copy_not_fixed does not pass).
AlreadyFixed == {a \in last.dst..last.hi : ~Unfixed(last.pre[a], a)}

\* C6 (amended): copied() succeeds exactly on an instance that is not Fixed
\* yet (Pending or fresh): it then leaves it Fixed, the descriptor of an Mpfr
\* at its own limbs, the stored value unchanged.  On an instance that is
\* already Fixed it panics and changes nothing.  Over a slice it does so
\* element by element, in order, and stops at the first already Fixed one.
C6_FixupSucceedsOnUnfixed ==
    last.op \in {"copied", "copied_slice"}
    => /\ panicked <=> AlreadyFixed # {}
       /\ \A a \in last.dst..last.hi :
            IF \A b \in AlreadyFixed : a < b
            THEN /\ Fixed(mem[a], a)
                 /\ IsMpfr(C) => mem[a].mpfr_fixeds[1].d = mpfr_limps_ptr(a)
                 /\ Payload(mem[a]) = Payload(last.pre[a])
            ELSE mem[a] = last.pre[a]

\* C6's case: copied() was called on an instance that was Fixed already.
C6_Witness ==
    /\ last.op = "copied"
    /\ Fixed(last.rhs, last.dst)
    /\ Checked
    /\ panicked

---------------------------------------------------------------------------
(* Claims about the selector (SpecSelect) *)

\* choice covers bounds, as the specification defines it.
Covers(have, want) ==
    /\ have.precision >= want.precision
    /\ have.min_exponent <= want.min_exponent
    /\ have.max_exponent >= want.max_exponent

\* C3: for a BINARY request the binary bounds of the choice accommodate
\* returns cover the request, in precision and in both exponent directions.
C3_SelectCovers ==
    (derived # NONE /\ derived.op = "accommodate" /\ req.base = BINARY)
    => /\ IsChoice(chosen)
       /\ bounds(chosen, BINARY).precision >= req.precision
       /\ bounds(chosen, BINARY).min_exponent <= req.min_exponent
       /\ bounds(chosen, BINARY).max_exponent >= req.max_exponent

\* C3's case: a request of f32's precision reaching one below f32's least
\* exponent was answered.
C3_Witness ==
    /\ derived # NONE
    /\ derived.op = "accommodate"
    /\ req.base = BINARY
    /\ req.precision = F32_MANTISSA_DIGITS
    /\ req.min_exponent = F32_MIN_EXP - 1
    /\ chosen = F64

FixedChoices == <<F32, F64, TwoFloat>>

FixedBinaryBounds == <<F32_BOUNDS_BINARY, F64_BOUNDS_BINARY, TWOFLOAT_BOUNDS_BINARY>>

\* C4: for a BINARY request accommodate returns the first of F32, F64,
\* TwoFloat whose binary record covers it, and when none does Mpfr with
\* precision_bits = the requested precision and ceil(precision / word bits)
\* limbs; the binary record of each of the three selects itself.
C4_SelectIsCheapest ==
    (derived # NONE /\ derived.op = "accommodate" /\ req.base = BINARY)
    => LET covering == {i \in 1..3 : Covers(FixedBinaryBounds[i], req)}
       IN  /\ \A i \in covering :
                (\A j \in covering : i <= j) => chosen = FixedChoices[i]
           /\ covering = {} =>
                /\ IsMpfr(chosen)
                /\ chosen.bounds.precision_bits = req.precision
                /\ chosen.bounds.limb_parts * NUMB_BITS >= req.precision
                /\ (chosen.bounds.limb_parts - 1) * NUMB_BITS < req.precision
           /\ \A i \in 1..3 :
                req = FixedBinaryBounds[i] => chosen = FixedChoices[i]

\* C4's case: no fixed representation covers the request, three limbs.
C4_Witness ==
    /\ derived # NONE
    /\ derived.op = "accommodate"
    /\ req.base = BINARY
    /\ IsMpfr(chosen)
    /\ chosen.bounds.limb_parts = 3

\* C7: a DECIMAL request never gets a choice: accommodate panics.
C7_DecimalSelectPanics ==
    req.base = DECIMAL
    => /\ ~IsChoice(chosen)
       /\ derived # NONE => (derived.op = "accommodate" /\ chosen = PANIC /\ panicked)

\* C7's case: accommodate was called on a DECIMAL request.
C7_Witness ==
    /\ req.base = DECIMAL
    /\ derived # NONE
    /\ derived.op = "accommodate"

\* C8 (as claimed): bounds::<BASE>() of a fixed representation is its record
\* for BASE, and the BINARY bounds of Mpfr are its precision_bits with the
\* full exponent range.
C8_BoundsInRequestedBase ==
    (derived # NONE /\ derived.op = "bounds")
    => /\ derived.of = F32 =>
            derived.out = IF derived.base = BINARY
                          THEN F32_BOUNDS_BINARY ELSE F32_BOUNDS_DECIMAL
       /\ derived.of = F64 =>
            derived.out = IF derived.base = BINARY
                          THEN F64_BOUNDS_BINARY ELSE F64_BOUNDS_DECIMAL
       /\ derived.of = TwoFloat =>
            derived.out = IF derived.base = BINARY
                          THEN TWOFLOAT_BOUNDS_BINARY ELSE TWOFLOAT_BOUNDS_DECIMAL
       /\ (IsMpfr(derived.of) /\ derived.base = BINARY) =>
            derived.out = UniFloatBounds(BINARY, derived.of.bounds.precision_bits,
                                         ISIZE_MIN, ISIZE_MAX)

\* The precision of a choice: that of its binary bounds.
Precision(choice) == to_bounds_BINARY(choice).precision

\* C9: most_precise_for_same_space never lowers the precision; it returns a
\* fixed representation as it is; of Mpfr it keeps the limbs and makes the
\* precision limb_parts * word bits (Mpfr(2 limbs, 100) gives Mpfr(2 limbs,
\* 128)); applied to its own result it changes nothing.
C9_MostPreciseForSameSpace ==
    (derived # NONE /\ derived.op = "most_precise")
    => /\ Precision(derived.out) >= Precision(derived.of)
       /\ ~IsMpfr(derived.of) => derived.out = derived.of
       /\ IsMpfr(derived.of) =>
            /\ IsMpfr(derived.out)
            /\ derived.out.bounds.limb_parts = derived.of.bounds.limb_parts
            /\ derived.out.bounds.precision_bits =
                  derived.of.bounds.limb_parts * NUMB_BITS
       /\ derived.of = Mpfr(MpfrBounds(100, 2)) =>
            derived.out = Mpfr(MpfrBounds(128, 2))
       /\ most_precise_for_same_space(derived.out) = derived.out

\* C9's case: the operation was applied to Mpfr(2 limbs, 100 bits).
C9_Witness ==
    /\ derived # NONE
    /\ derived.op = "most_precise"
    /\ derived.of = Mpfr(MpfrBounds(100, 2))

\* C10: the size of the Mpfr choice for a precision is at least the size of
\* the Mpfr choice for any smaller precision, and is the size for one limb
\* plus (limbs - 1) times the step from one limb to two.
C10_SizeMonotone ==
    (derived # NONE /\ derived.op = "unifloat_size" /\ IsMpfr(derived.of))
    => /\ derived.of.bounds.limb_parts * NUMB_BITS >= derived.of.bounds.precision_bits
       /\ (derived.of.bounds.limb_parts - 1) * NUMB_BITS < derived.of.bounds.precision_bits
       /\ \A p1 \in 1..derived.of.bounds.precision_bits :
            unifloat_size(Mpfr(for_precision_binary(p1)), debug_assertions)
               <= derived.out
       /\ derived.out =
            size_of_UniFloat(UniMpfrLimb1Prec1, debug_assertions)
            + (derived.of.bounds.limb_parts - 1)
              * (size_of_UniFloat(UniMpfrLimb2PrecAll, debug_assertions)
                 - size_of_UniFloat(UniMpfrLimb1Prec1, debug_assertions))

\* C10's case: the size of a three-limb Mpfr choice was computed.
C10_Witness ==
    /\ derived # NONE
    /\ derived.op = "unifloat_size"
    /\ IsMpfr(derived.of)
    /\ derived.of.bounds.limb_parts = 3

---------------------------------------------------------------------------
(* The example request and the remaining claims about the protocol *)

\* Bounds(precision = 24, exponent = [-126, 127], Binary)
ExampleSingleRequest == UniFloatBounds(BINARY, 24, -126, 127)

\* C11 (as claimed): for the BINARY request 24, -126, 127 accommodate returns
\* F32.
C11_ExampleSelectsSingle ==
    (derived # NONE /\ derived.op = "accommodate" /\ req = ExampleSingleRequest)
    => chosen = F32

\* C11 (amended): for the BINARY request 24, -126, 127 accommodate returns
\* F64: the least exponent asked for is one below that of f32's binary record
\* (24, -125, 128), which therefore does not cover the request, and f64's
\* record does.
C11_ExampleSelectsDouble ==
    (derived # NONE /\ derived.op = "accommodate" /\ req = ExampleSingleRequest)
    => /\ ~Covers(F32_BOUNDS_BINARY, req)
       /\ Covers(F64_BOUNDS_BINARY, req)
       /\ chosen = F64

\* C11's case: accommodate has answered the request 24, -126, 127.
C11_Witness ==
    /\ derived # NONE
    /\ derived.op = "accommodate"
    /\ req = ExampleSingleRequest

\* C12: dst <<= &src panics exactly when src is not Fixed, and then dst (like
\* every place) is as it was before the call; dst <<= rhs by value makes no
\* check of the state of its source: whether it panics is decided by the
\* bytes of rhs at dst's address alone, and a source that is Pending where it
\* lies is adopted like a Fixed one.
C12_RefChecksSourceValueDoesNot ==
    /\ last.op = "shl_assign_ref"
         => /\ panicked <=> ~Fixed(last.rhs, last.src)
            /\ panicked => /\ mem[last.dst] = last.pre[last.dst]
                           /\ mem[last.src] = last.rhs
            /\ ~panicked => /\ Fixed(mem[last.dst], last.dst)
                            /\ Payload(mem[last.dst]) = Payload(last.rhs)
    /\ last.op = "shl_assign_value"
         => /\ panicked <=> ~Unfixed(last.rhs, last.dst)
            /\ (~Fixed(last.rhs, last.src) /\ Unfixed(last.rhs, last.dst))
                 => /\ ~panicked
                    /\ Fixed(mem[last.dst], last.dst)
                    /\ Payload(mem[last.dst]) = Payload(last.rhs)

\* C12's case: dst <<= &src was called with a Pending src.
C12_Witness ==
    /\ last.op = "shl_assign_ref"
    /\ StaleCopy(last.rhs, last.src)
    /\ panicked

\* C13: in the debug build the witness and the descriptor pointer of an
\* Mpfr-backed instance always name the same place: for every instance and
\* every address x, unifloat_self is x exactly when d is the limb array of an
\* instance at x (so also at the instance's own address, and also for the
\* bytes <<= has stored just before its copied()).  Hence whenever a check
\* panics it is the first assert!, on unifloat_self, that fails.
C13_WitnessAndPointerAgree ==
    (debug_assertions /\ IsMpfr(C))
    => /\ \A a \in Addrs :
            /\ (mem[a].unifloat_self = a)
                  <=> (mem[a].mpfr_fixeds[1].d = mpfr_limps_ptr(a))
            /\ \A x \in Addrs :
                 (mem[a].unifloat_self = x)
                    <=> (mem[a].mpfr_fixeds[1].d = mpfr_limps_ptr(x))
       /\ (panicked /\ last.op \in {"read", "shl_assign_ref"})
            => last.rhs.unifloat_self # last.src
       /\ (panicked /\ last.op \in {"copied", "shl_assign_value"})
            => last.rhs.unifloat_self = last.dst
       /\ (panicked /\ last.op = "copied_slice")
            => \E a \in last.dst..last.hi : last.pre[a].unifloat_self = a

\* C13's case: debug build, Mpfr: a place holds a Fixed instance, another the
\* raw copy of one, and a read check of the copy has panicked.
C13_Witness ==
    /\ debug_assertions
    /\ IsMpfr(C)
    /\ last.op = "read"
    /\ StaleCopy(last.rhs, last.dst)
    /\ panicked
    /\ \E a \in Addrs : Fixed(mem[a], a)

===========================================================================
